---- MODULE Spec2Model ----
(***************************************************************************)
(* Model of app.py: the Streamlit page that uploads an audio file, runs    *)
(* speaker diarization, transcribes every sufficiently long turn and shows *)
(* the records, a talk-time summary and a text export.                     *)
(*                                                                         *)
(* One behaviour of the model is one browser session.  A user event        *)
(* (upload, button press, view toggle, download click, removing the file)  *)
(* starts a script run; the run is followed through the positions of the   *)
(* script (pc) until it ends.  The external calls are opaque: loading the  *)
(* audio gives any buffer length of AudioLens or raises, the diarization   *)
(* adapter returns any turn sequence over TurnPool or raises, the          *)
(* transcription adapter returns any text of RawTexts or raises.           *)
(*                                                                         *)
(* Units.  A turn time is an integer t in microseconds and stands for the  *)
(* double nearest to t / 10^6, which is the value segment.start holds.     *)
(* Sample indices and buffer lengths are in samples.  Rounded times stored *)
(* in a record are integers in hundredths of a second (round(x, 2) =       *)
(* c / 100).  ToSample and Round2 give the results of the double           *)
(* arithmetic of app.py, which differ from the exact ones at sample        *)
(* boundaries and at rounding ties.                                        *)
(*                                                                         *)
(* Text.  A Python str is the sequence of its Unicode code points:         *)
(* "hi" is <<104, 105>>.  Speaker labels, transcribed texts and the export *)
(* are such sequences.                                                     *)
(***************************************************************************)
EXTENDS Integers, Sequences, FiniteSets

VARIABLES
    df,             \* st.session_state.df: None or Some(sequence of records)
    txt_output,     \* st.session_state.txt_output: None or Some(characters)
    view_mode,      \* st.session_state.view_mode
    uploaded_file,  \* the file in the uploader: 0 for none, else a file id
    button,         \* st.button("Process Audio") in the current run, FALSE
                    \* between runs
    pc,             \* position of the current script run, "idle" between runs
    audio,          \* len(audio): number of samples of the decoded buffer
    annotation,     \* the turns emitted by the diarization adapter, in order
    idx,            \* position of the segment loop in annotation
    results,        \* the list results of the current run
    calls,          \* turns handed to whisper_model.transcribe in this run
    nDiar,          \* diarization_pipeline calls made in the session
    nTrans,         \* whisper_model.transcribe calls made in the session
    scratchFiles,   \* upload scratch files (audio_path) present on disk
    sliceFiles,     \* per-slice files (seg.name) present on disk
    warned,         \* the run issued "No valid speech segments detected."
    shown,          \* what the current run rendered: None or Some(view)
    dfFile,         \* the uploaded file whose processing stored df
    runs            \* script runs started in the session

vars == <<df, txt_output, view_mode, uploaded_file, button, pc, audio,
          annotation, idx, results, calls, nDiar, nTrans, scratchFiles,
          sliceFiles, warned, shown, dfFile, runs>>

----------------------------------------------------------------------------
(* Bounds of the model *)

MaxTurns == 2
MaxRuns == 3
NumFiles == 2

----------------------------------------------------------------------------
(* Values *)

None == <<>>
Some(v) == <<v>>

sr == 16000

\* The labels "SPEAKER_00" and "SPEAKER_01", in label order.
Speakers ==
    << <<83, 80, 69, 65, 75, 69, 82, 95, 48, 48>>,
       <<83, 80, 69, 65, 75, 69, 82, 95, 48, 49>> >>

Turn(s, e, k) == [start |-> s, end |-> e, speaker |-> Speakers[k]]

\* Turns the diarization adapter may emit (start and end in microseconds).
TurnPool ==
    { Turn(300000, 1200000, 1),    \* 0.9 s
      Turn(1200000, 1300000, 2),   \* 0.1 s
      Turn(30, 500000, 2),         \* 0.49997 s, starts inside sample 0
      Turn(125000, 625000, 1),     \* exactly 0.5 s
      Turn(1230000, 4560000, 1),   \* 3.33 s
      Turn(500, 500500, 2),        \* exactly 0.5 s, 7999 samples in doubles
      Turn(1645000, 2145000, 2) }  \* 0.5 s, ends after a 2 s buffer, ties

\* Lengths of the decoded buffer, in samples (2 s and 5 s at 16 kHz).
AudioLens == {2 * sr, 5 * sr}

\* Texts the transcription adapter may return: " " (nothing but white
\* space) and " a\nb\r\n" (white space at both ends and a line break inside
\* the text, which strip() leaves alone).
RawTexts == { <<32>>, <<32, 97, 10, 98, 13, 10>> }

RECURSIVE SeqsUpTo(_, _)
SeqsUpTo(S, n) ==
    IF n = 0 THEN { <<>> }
    ELSE LET shorter == SeqsUpTo(S, n - 1)
         IN  shorter \cup { Append(q, x) : q \in shorter, x \in S }

TurnSeqs == SeqsUpTo(TurnPool, MaxTurns)

Min(a, b) == IF a < b THEN a ELSE b
Max(a, b) == IF a > b THEN a ELSE b

----------------------------------------------------------------------------
(* Pure functions of the segment loop *)

\* 2^n modulo m.
RECURSIVE PowMod2(_, _)
PowMod2(n, m) ==
    IF n = 0 THEN 1 % m
    ELSE LET h == PowMod2(n \div 2, m)
         IN  IF n % 2 = 0 THEN (h * h) % m ELSE (2 * h * h) % m

\* The binary exponent j that brings k / d into [1, 2): d <= k * 2^j < 2 * d
\* (k > 0).
RECURSIVE BinShift(_, _)
BinShift(k, d) ==
    IF k < d THEN BinShift(2 * k, d) + 1
    ELSE IF k >= 2 * d THEN BinShift(k \div 2, d) - 1
    ELSE 0

\* The integer part of k * 2^j for that j.
RECURSIVE BinHead(_, _)
BinHead(k, d) ==
    IF k < d THEN BinHead(2 * k, d)
    ELSE IF k >= 2 * d THEN BinHead(k \div 2, d)
    ELSE k

\* What the division k / d leaves behind when the quotient is cut to the 53
\* bits of a double: (k * 2^s) mod d, for the s with
\* 2^52 <= k * 2^s / d < 2^53.  The double is the exact quotient when this
\* is 0, lies below it when it is less than d / 2, and above it otherwise.
MantRem(k, d) == ((k % d) * PowMod2(52 + BinShift(k, d), d)) % d

\* The double product segment.start * sr falls just below the whole number
\* t * sr / 10^6 = 2 * k (t = 125 * k microseconds, sr = 125 * 2^7): the
\* double of k / 8000 lies below k / 8000 by MantRem(k, 125) / 125 of its
\* last bit, and the product keeps the deficit when it is more than half a
\* last bit of the product, which takes a mantissa of k / 125 below 128/125.
ProductBelow(k) ==
    /\ k > 0
    /\ BinHead(k, 125) < 128
    /\ MantRem(k, 125) \in 33..62

\* int(segment.start * sr): truncation of the double product of seconds and
\* sample rate.  The exact value is t * sr / 10^6, computed as
\* t * (sr / 1000) / 1000 to stay within 32-bit integers (1000 divides sr);
\* the double product differs from it by far less than 1 / 125, so the
\* truncation differs only when the exact value is a whole number and the
\* product falls below it.
ToSample(t) ==
    LET exact == (t * (sr \div 1000)) \div 1000
    IN  IF t % 125 = 0 /\ ProductBelow(t \div 125) THEN exact - 1 ELSE exact

\* len(audio[start:end]) for 0 <= start, 0 <= end and a buffer of n samples.
SliceLen(start, end, n) == Max(0, Min(end, n) - Min(start, n))

\* int(sr * 0.5)
MinSamples == (sr * 5) \div 10

\* Retained with "<=" for "<": a slice of exactly MinSamples is skipped.
Retained_Inclusive(t, n) ==
    ~ (SliceLen(ToSample(t.start), ToSample(t.end), n) <= MinSamples)

\* The test of the loop, negated: the turn is not skipped by "continue".
Retained(t, n) ==
    ~ (SliceLen(ToSample(t.start), ToSample(t.end), n) < MinSamples)

\* round(x, 2) in hundredths, x the double of t / 10^6.  Python rounds the
\* value the double holds: half-way between two hundredths
\* (t = 5000 * n, n odd, x = n / 200) the double is exact only when 25
\* divides n, and then the tie goes to the even neighbour; otherwise the
\* double lies below or above n / 200 and the result follows it.
Round2(t) ==
    LET q == t \div 10000
        r == t % 10000
        rem == MantRem(t \div 5000, 25)
    IN  IF r < 5000 THEN q
        ELSE IF r > 5000 THEN q + 1
        ELSE IF rem = 0 THEN (IF q % 2 = 0 THEN q ELSE q + 1)
        ELSE IF rem <= 12 THEN q
        ELSE q + 1

\* str.isspace() of one character: \t \n \v \f \r (9 to 13), U+001C to
\* U+001F, space, U+0085, U+00A0, U+1680, U+2000 to U+200A, U+2028, U+2029,
\* U+202F, U+205F and U+3000.
IsSpace(c) ==
    \/ c \in 9..13
    \/ c \in 28..32
    \/ c \in {133, 160, 5760}
    \/ c \in 8192..8202
    \/ c \in {8232, 8233, 8239, 8287, 12288}

\* str.strip()
RECURSIVE LStrip(_)
LStrip(s) ==
    IF s # <<>> /\ IsSpace(Head(s)) THEN LStrip(Tail(s)) ELSE s

RECURSIVE RStrip(_)
RStrip(s) ==
    IF s # <<>> /\ IsSpace(s[Len(s)]) THEN RStrip(SubSeq(s, 1, Len(s) - 1))
    ELSE s

Strip(s) == RStrip(LStrip(s))

\* The dict appended to results for a retained turn.
Record(t, text) ==
    [speaker |-> t.speaker, start |-> Round2(t.start), end |-> Round2(t.end),
     text |-> text]

----------------------------------------------------------------------------
(* Pure functions of the export and the views *)

\* The character of the decimal digit d ("0" is 48).
Digit(d) == 48 + d

RECURSIVE IntDigits(_)
IntDigits(n) ==
    IF n < 10 THEN <<Digit(n)>>
    ELSE Append(IntDigits(n \div 10), Digit(n % 10))

\* FloatStr with one digit after the point in every case.
FloatStr_OneDecimal(c) ==
    IntDigits(c \div 100) \o <<46, Digit((c % 100) \div 10)>>

\* str(float) of a non-negative value c / 100: shortest form, at least one
\* digit after the point ("." is 46).
FloatStr(c) ==
    LET whole == IntDigits(c \div 100)
        frac == c % 100
    IN  IF frac % 10 = 0 THEN whole \o <<46, Digit(frac \div 10)>>
        ELSE whole \o <<46, Digit(frac \div 10), Digit(frac % 10)>>

\* One iteration of the loop that builds txt:
\* "[" start "s " arrow " " end "s] " speaker ": " text "\n", the arrow
\* being U+2192 (8594).
Line(r) ==
    <<91>> \o FloatStr(r.start) \o <<115, 32, 8594, 32>>
         \o FloatStr(r.end) \o <<115, 93, 32>> \o r.speaker \o <<58, 32>>
         \o r.text \o <<10>>

RECURSIVE BuildTxt(_)
BuildTxt(rows) ==
    IF rows = <<>> THEN <<>>
    ELSE BuildTxt(SubSeq(rows, 1, Len(rows) - 1)) \o Line(rows[Len(rows)])

\* df[["start", "end", "speaker", "text"]]
TableRows(rows) ==
    [i \in 1..Len(rows) |->
        <<rows[i].start, rows[i].end, rows[i].speaker, rows[i].text>>]

\* The chat view: one block per row of df.iterrows().
ChatRows(rows) ==
    [i \in 1..Len(rows) |->
        <<rows[i].speaker, rows[i].start, rows[i].end, rows[i].text>>]

\* SumDuration as the span from the first start to the last end.
SumDuration_Span(rows, spk) ==
    LET own == { i \in 1..Len(rows) : rows[i].speaker = spk }
    IN  IF own = {} THEN 0
        ELSE LET last == CHOOSE i \in own :
                             \A j \in own : rows[j].end <= rows[i].end
                 first == CHOOSE i \in own :
                             \A j \in own : rows[i].start <= rows[j].start
             IN  rows[last].end - rows[first].start

RECURSIVE SumDuration(_, _)
SumDuration(rows, spk) ==
    IF rows = <<>> THEN 0
    ELSE LET r == rows[Len(rows)]
             rest == SumDuration(SubSeq(rows, 1, Len(rows) - 1), spk)
         IN  IF r.speaker = spk THEN rest + (r.end - r.start) ELSE rest

\* df.assign(Duration = end - start).groupby("speaker")["Duration"].sum()
\* .round(2): one row per label present, in label order.  The sum is exact
\* in hundredths, which is the value round(2) restores from the float sum.
RECURSIVE SummaryFrom(_, _)
SummaryFrom(rows, k) ==
    IF k > Len(Speakers) THEN <<>>
    ELSE LET here ==
                 IF \E i \in 1..Len(rows) : rows[i].speaker = Speakers[k]
                 THEN << [speaker |-> Speakers[k],
                          Duration |-> SumDuration(rows, Speakers[k])] >>
                 ELSE <<>>
         IN  here \o SummaryFrom(rows, k + 1)

Summary(rows) == SummaryFrom(rows, 1)

----------------------------------------------------------------------------
(* Initial state: the session state after lines 18-26 of the first run *)

Init ==
    /\ df = None
    /\ txt_output = None
    /\ view_mode = "table"
    /\ uploaded_file = 0
    /\ button = FALSE
    /\ pc = "idle"
    /\ audio = 0
    /\ annotation = <<>>
    /\ idx = 0
    /\ results = <<>>
    /\ calls = <<>>
    /\ nDiar = 0
    /\ nTrans = 0
    /\ scratchFiles = 0
    /\ sliceFiles = 0
    /\ warned = FALSE
    /\ shown = None
    /\ dfFile = 0
    /\ runs = 0

----------------------------------------------------------------------------
(* A script run *)

\* BeginRun with the test of line 105 on the button instead of on df: a
\* press of the button processes again although a result is stored.
BeginRun_Reprocess(f, b) ==
    /\ pc = "idle"
    /\ runs < MaxRuns
    /\ runs' = runs + 1
    /\ uploaded_file' = f
    /\ button' = b
    /\ warned' = FALSE
    /\ shown' = None
    /\ calls' = <<>>
    /\ IF f = 0
       THEN /\ pc' = "idle"
            /\ scratchFiles' = scratchFiles
       ELSE /\ scratchFiles' = scratchFiles + 1
            /\ pc' = IF b \/ df # None
                     THEN (IF b THEN "process" ELSE "display")
                     ELSE "cleanup"
    /\ audio' = 0
    /\ annotation' = <<>>
    /\ idx' = 0
    /\ results' = <<>>
    /\ UNCHANGED <<df, txt_output, nDiar, nTrans, sliceFiles, dfFile>>

\* Lines 91-102 of a run started with file f in the uploader and the button
\* reporting b: the run starts with no locals, the upload is written to a
\* fresh scratch file, and the run goes on to the processing, to the
\* display, or straight to the clean-up.
BeginRun(f, b) ==
    /\ pc = "idle"
    /\ runs < MaxRuns
    /\ runs' = runs + 1
    /\ uploaded_file' = f
    /\ button' = b
    /\ warned' = FALSE
    /\ shown' = None
    /\ calls' = <<>>
    /\ IF f = 0
       THEN /\ pc' = "idle"
            /\ scratchFiles' = scratchFiles
       ELSE /\ scratchFiles' = scratchFiles + 1
            /\ pc' = IF b \/ df # None
                     THEN (IF df = None THEN "process" ELSE "display")
                     ELSE "cleanup"
    /\ audio' = 0
    /\ annotation' = <<>>
    /\ idx' = 0
    /\ results' = <<>>
    /\ UNCHANGED <<df, txt_output, nDiar, nTrans, sliceFiles, dfFile>>

\* The user puts a (different) file into the uploader.
UploadFile(f) ==
    /\ f \in 1..NumFiles
    /\ f # uploaded_file
    /\ BeginRun(f, FALSE)
    /\ UNCHANGED view_mode

\* The user clears the uploader.
RemoveFile ==
    /\ uploaded_file # 0
    /\ BeginRun(0, FALSE)
    /\ UNCHANGED view_mode

\* The user presses "Process Audio" (rendered only under a file).
PressProcess ==
    /\ uploaded_file # 0
    /\ BeginRun(uploaded_file, TRUE)
    /\ UNCHANGED view_mode

\* The user picks the other entry of the "Choose View" radio.
ToggleView ==
    /\ shown # None
    /\ view_mode' = IF view_mode = "table" THEN "chat" ELSE "table"
    /\ BeginRun(uploaded_file, FALSE)

\* The user clicks the download button, which reruns the script.
DownloadClick ==
    /\ shown # None
    /\ BeginRun(uploaded_file, FALSE)
    /\ UNCHANGED view_mode

\* Lines 107-119: load the audio, call the diarization adapter.
LoadAndDiarize ==
    /\ pc = "process"
    /\ \E n \in AudioLens, a \in TurnSeqs :
          /\ audio' = n
          /\ annotation' = a
    /\ nDiar' = nDiar + 1
    /\ results' = <<>>
    /\ idx' = 1
    /\ pc' = "loop"
    /\ UNCHANGED <<df, txt_output, view_mode, uploaded_file, button, calls,
                   nTrans, scratchFiles, sliceFiles, warned, shown, dfFile,
                   runs>>

\* DropTurn without the "continue": the short turn gets a record as well.
DropTurn_StillRecords ==
    /\ pc = "loop"
    /\ idx <= Len(annotation)
    /\ ~ Retained(annotation[idx], audio)
    /\ idx' = idx + 1
    /\ results' = Append(results, Record(annotation[idx], <<>>))
    /\ UNCHANGED <<df, txt_output, view_mode, uploaded_file, button, pc,
                   audio, annotation, calls, nDiar, nTrans, scratchFiles,
                   sliceFiles, warned, shown, dfFile, runs>>

\* Lines 112-113: librosa.load or sf.write raises; nothing catches the
\* exception and the run ends there, before the diarization call.
LoadRaise ==
    /\ pc = "process"
    /\ pc' = "idle"
    /\ button' = FALSE
    /\ UNCHANGED <<df, txt_output, view_mode, uploaded_file, audio,
                   annotation, idx, results, calls, nDiar, nTrans,
                   scratchFiles, sliceFiles, warned, shown, dfFile, runs>>

\* Line 116: the diarization call raises and the run ends there.
DiarizeRaise ==
    /\ pc = "process"
    /\ nDiar' = nDiar + 1
    /\ pc' = "idle"
    /\ button' = FALSE
    /\ UNCHANGED <<df, txt_output, view_mode, uploaded_file, audio,
                   annotation, idx, results, calls, nTrans, scratchFiles,
                   sliceFiles, warned, shown, dfFile, runs>>

\* Lines 121-127: the slice of the next turn is too short, "continue".
DropTurn ==
    /\ pc = "loop"
    /\ idx <= Len(annotation)
    /\ ~ Retained(annotation[idx], audio)
    /\ idx' = idx + 1
    /\ UNCHANGED <<df, txt_output, view_mode, uploaded_file, button, pc,
                   audio, annotation, results, calls, nDiar, nTrans,
                   scratchFiles, sliceFiles, warned, shown, dfFile, runs>>

\* Lines 121-132: the slice is long enough; it is written to a slice file
\* and whisper_model.transcribe is called on it.
KeepTurn ==
    /\ pc = "loop"
    /\ idx <= Len(annotation)
    /\ Retained(annotation[idx], audio)
    /\ sliceFiles' = sliceFiles + 1
    /\ calls' = Append(calls, annotation[idx])
    /\ nTrans' = nTrans + 1
    /\ pc' = "transcribe"
    /\ UNCHANGED <<df, txt_output, view_mode, uploaded_file, button, audio,
                   annotation, idx, results, nDiar, scratchFiles, warned,
                   shown, dfFile, runs>>

\* Lines 132-140: the call returns; the slice file is removed and the
\* record is appended.
TranscribeReturn ==
    /\ pc = "transcribe"
    /\ \E raw \in RawTexts :
          results' = Append(results, Record(annotation[idx], Strip(raw)))
    /\ sliceFiles' = sliceFiles - 1
    /\ idx' = idx + 1
    /\ pc' = "loop"
    /\ UNCHANGED <<df, txt_output, view_mode, uploaded_file, button, audio,
                   annotation, calls, nDiar, nTrans, scratchFiles, warned,
                   shown, dfFile, runs>>

\* Line 132: the call raises; nothing catches the exception and the run
\* ends there (the locals of the run are gone).
TranscribeRaise ==
    /\ pc = "transcribe"
    /\ pc' = "idle"
    /\ audio' = 0
    /\ annotation' = <<>>
    /\ idx' = 0
    /\ results' = <<>>
    /\ calls' = <<>>
    /\ button' = FALSE
    /\ UNCHANGED <<df, txt_output, view_mode, uploaded_file, nDiar, nTrans,
                   scratchFiles, sliceFiles, warned, shown, dfFile, runs>>

\* Lines 142-146: the frame is empty; warn and st.stop().  The run ends
\* where it stands: the page keeps the warning, and the buffer and the turns
\* of the stopped run stay on record until the next run starts.
NoValidSegments ==
    /\ pc = "loop"
    /\ idx > Len(annotation)
    /\ results = <<>>
    /\ warned' = TRUE
    /\ pc' = "idle"
    /\ button' = FALSE
    /\ UNCHANGED <<df, txt_output, view_mode, uploaded_file, audio,
                   annotation, idx, results, calls, nDiar, nTrans,
                   scratchFiles, sliceFiles, shown, dfFile, runs>>

\* StoreResults without the test of line 144: an empty frame is stored and
\* shown like any other.
StoreResults_StoresEmpty ==
    /\ pc = "loop"
    /\ idx > Len(annotation)
    /\ df' = Some(results)
    /\ txt_output' = Some(BuildTxt(results))
    /\ dfFile' = uploaded_file
    /\ pc' = "display"
    /\ UNCHANGED <<view_mode, uploaded_file, button, audio, annotation, idx,
                   results, calls, nDiar, nTrans, scratchFiles, sliceFiles,
                   warned, shown, runs>>

\* Lines 142-159: store the frame and the text export in the session.
StoreResults ==
    /\ pc = "loop"
    /\ idx > Len(annotation)
    /\ results # <<>>
    /\ df' = Some(results)
    /\ txt_output' = Some(BuildTxt(results))
    /\ dfFile' = uploaded_file
    /\ pc' = "display"
    /\ UNCHANGED <<view_mode, uploaded_file, button, audio, annotation, idx,
                   results, calls, nDiar, nTrans, scratchFiles, sliceFiles,
                   warned, shown, runs>>

\* Lines 162-216: the view, the talk-time summary and the download button.
Display ==
    /\ pc = "display"
    /\ shown' = Some([view |-> view_mode,
                      rows |-> IF view_mode = "table" THEN TableRows(df[1])
                               ELSE ChatRows(df[1]),
                      summary |-> Summary(df[1]),
                      download |-> txt_output])
    /\ pc' = "cleanup"
    /\ UNCHANGED <<df, txt_output, view_mode, uploaded_file, button, audio,
                   annotation, idx, results, calls, nDiar, nTrans,
                   scratchFiles, sliceFiles, warned, dfFile, runs>>

\* Lines 218-219: remove the upload scratch file; the run ends.
Cleanup ==
    /\ pc = "cleanup"
    /\ scratchFiles' = scratchFiles - 1
    /\ pc' = "idle"
    /\ audio' = 0
    /\ annotation' = <<>>
    /\ idx' = 0
    /\ results' = <<>>
    /\ calls' = <<>>
    /\ button' = FALSE
    /\ UNCHANGED <<df, txt_output, view_mode, uploaded_file, nDiar, nTrans,
                   sliceFiles, warned, shown, dfFile, runs>>

Next ==
    \/ \E f \in 1..NumFiles : UploadFile(f)
    \/ RemoveFile
    \/ PressProcess
    \/ ToggleView
    \/ DownloadClick
    \/ LoadAndDiarize
    \/ LoadRaise
    \/ DiarizeRaise
    \/ DropTurn
    \/ KeepTurn
    \/ TranscribeReturn
    \/ TranscribeRaise
    \/ NoValidSegments
    \/ StoreResults
    \/ Display
    \/ Cleanup

Spec == Init /\ [][Next]_vars

TypeOK ==
    /\ pc \in {"idle", "process", "loop", "transcribe", "display", "cleanup"}
    /\ uploaded_file \in 0..NumFiles
    /\ view_mode \in {"table", "chat"}
    /\ runs \in 0..MaxRuns

----------------------------------------------------------------------------
(* Notions used to state the properties *)

\* The slice of turn t, cut from the current buffer between the truncated
\* sample indices, has at least int(sr * 0.5) samples.
SliceOK(t) ==
    Min(ToSample(t.end), audio) - Min(ToSample(t.start), audio) >= MinSamples

\* The retained turns of a turn sequence, in order.
Kept(ts) == SelectSeq(ts, SliceOK)

\* rs are the records of the turns ts, one for one and in the same order.
RecordsMatch(rs, ts) ==
    /\ Len(rs) = Len(ts)
    /\ \A j \in 1..Len(ts) :
          /\ rs[j].speaker = ts[j].speaker
          /\ rs[j].start = Round2(ts[j].start)
          /\ rs[j].end = Round2(ts[j].end)

\* The current run is one that processed the audio (not served from df).
FreshRun == annotation # <<>>

\* The segment loop of the current (or just stopped) run has examined every
\* turn the adapter emitted (idx is 0 in a run without the loop).
LoopOver == idx > Len(annotation)

RECURSIVE Flatten(_)
Flatten(ss) == IF ss = <<>> THEN <<>> ELSE Head(ss) \o Flatten(Tail(ss))

\* A value c / 100 written with exactly two digits after the point.
TwoDecimals(c) ==
    IntDigits(c \div 100) \o <<46, Digit((c \div 10) % 10), Digit(c % 10)>>

\* A value c / 100 written with two digits after the point, a final zero
\* left out (but never the digit right after the point).
ShortestDecimal(c) ==
    IntDigits(c \div 100) \o <<46, Digit((c \div 10) % 10)>>
        \o (IF c % 10 = 0 THEN <<>> ELSE <<Digit(c % 10)>>)

LineWith(Fmt(_), r) ==
    <<91>> \o Fmt(r.start) \o <<115, 32, 8594, 32>> \o Fmt(r.end)
         \o <<115, 93, 32>> \o r.speaker \o <<58, 32>> \o r.text \o <<10>>

IsNewline(c) == c = 10

RECURSIVE SumOver(_, _)
SumOver(rows, I) ==
    IF I = {} THEN 0
    ELSE LET i == CHOOSE x \in I : TRUE
         IN  (rows[i].end - rows[i].start) + SumOver(rows, I \ {i})

\* Sum of end - start over the records of speaker spk.
TurnSum(rows, spk) ==
    SumOver(rows, { i \in 1..Len(rows) : rows[i].speaker = spk })

----------------------------------------------------------------------------
(* Properties *)

\* C1 (as written): the loop keeps a turn exactly when end - start is at
\* least 0.5 s (500000 microseconds).
C1_DurationRule ==
    [][ (pc = "loop" /\ idx <= Len(annotation)) =>
           ((pc' = "transcribe")
              <=> (annotation[idx].end - annotation[idx].start >= 500000)) ]_vars

\* C1 (amended): the loop keeps a turn exactly when the slice of the buffer
\* between the truncated sample indices has at least int(sr * 0.5) samples;
\* a kept turn is handed to the transcriber, a dropped one leaves calls and
\* results alone.  A turn inside the buffer that lasts at least 0.5 s plus
\* one sample period is kept, one shorter than 0.5 s minus one sample period
\* is dropped.
C1_SliceRule ==
    [][ (pc = "loop" /\ idx <= Len(annotation)) =>
           LET t == annotation[idx]
               dur == t.end - t.start
               kept == pc' = "transcribe" /\ calls' = Append(calls, t)
               dropped == /\ pc' = "loop"
                          /\ idx' = idx + 1
                          /\ calls' = calls
                          /\ results' = results
           IN  /\ kept <=> SliceOK(t)
               /\ dropped <=> ~ SliceOK(t)
               /\ ( /\ t.end * (sr \div 1000) <= audio * 1000
                    /\ dur * (sr \div 1000) >= (MinSamples + 1) * 1000 )
                      => kept
               /\ dur * (sr \div 1000) < (MinSamples - 1) * 1000 => dropped
      ]_vars

\* C1 witness: the loop has examined a turn of exactly 0.5 s and kept it,
\* and has examined a shorter turn and dropped it.
C1_Witness ==
    /\ pc = "loop"
    /\ idx = 3
    /\ Len(results) = 1
    /\ \E j, k \in 1..2 :
          /\ annotation[j].end - annotation[j].start = 500000
          /\ calls = <<annotation[j]>>
          /\ annotation[k].end - annotation[k].start < 500000
          /\ ~ SliceOK(annotation[k])

\* C2: while the loop runs nothing is stored or rendered, and whatever df
\* holds is never empty; a fresh run reaches the display with df holding
\* the records of all retained turns, at least one.  A run whose loop has
\* come to its end with no turn retained (the empty turn sequence
\* included) made no transcription call, does nothing but warn "no valid
\* segments" and stop, and leaves df and txt_output unset and nothing
\* rendered; the warning is issued by no other run.
C2_NoPartialResult ==
    /\ pc \in {"process", "loop", "transcribe"} =>
          df = None /\ txt_output = None /\ shown = None
    /\ df # None => df[1] # <<>>
    /\ (pc = "display" /\ FreshRun) =>
          /\ idx = Len(annotation) + 1
          /\ df = Some(results)
          /\ Len(results) = Len(Kept(annotation))
    /\ (LoopOver /\ Kept(annotation) = <<>>) =>
          /\ pc = "loop" \/ (pc = "idle" /\ warned)
          /\ calls = <<>>
          /\ df = None /\ txt_output = None /\ shown = None
    /\ warned => (pc = "idle" /\ LoopOver /\ Kept(annotation) = <<>>)

\* C2 witness: a run has stopped with the warning after the adapter emitted
\* two turns and the loop discarded both; no transcription call was made in
\* the session and nothing is stored or rendered.
C2_Witness ==
    /\ warned
    /\ pc = "idle"
    /\ Len(annotation) = 2
    /\ LoopOver
    /\ Kept(annotation) = <<>>
    /\ nTrans = 0
    /\ df = None /\ txt_output = None /\ shown = None

\* C3: the transcription calls are the retained turns of the examined part
\* of the input, in input order, each once; the records are those of the
\* calls that have returned; a call in flight is the only one without a
\* record, and it is the one of the turn under examination.
C3_CallsAndRecordsInOrder ==
    /\ pc = "loop" =>
          /\ calls = Kept(SubSeq(annotation, 1, idx - 1))
          /\ RecordsMatch(results, calls)
    /\ pc = "transcribe" =>
          /\ calls = Kept(SubSeq(annotation, 1, idx))
          /\ calls[Len(calls)] = annotation[idx]
          /\ RecordsMatch(results, SubSeq(calls, 1, Len(calls) - 1))
    /\ (pc = "display" /\ FreshRun) =>
          /\ calls = Kept(annotation)
          /\ RecordsMatch(df[1], calls)

\* C3 witness: the loop has finished a sequence in which one turn was
\* discarded and a later one retained.
C3_Witness ==
    /\ pc = "loop"
    /\ idx = 3
    /\ Len(annotation) = 2
    /\ ~ SliceOK(annotation[1])
    /\ calls = <<annotation[2]>>
    /\ Len(results) = 1

\* C4: once a result is stored, no step of a run with the file it was
\* computed for calls an adapter or changes df or txt_output.
C4_MemoServed ==
    [][ (df # None /\ uploaded_file' = dfFile) =>
           /\ nDiar' = nDiar
           /\ nTrans' = nTrans
           /\ df' = df
           /\ txt_output' = txt_output ]_vars

\* C4 witness: a rerun started by the process button, with the file of the
\* stored result, has rendered the stored result without processing.
C4_Witness ==
    /\ pc = "cleanup"
    /\ df # None
    /\ button
    /\ uploaded_file = dfFile
    /\ shown # None
    /\ ~ FreshRun

\* C5: whatever is rendered was computed for the file now in the uploader.
C5_ShownForCurrentFile ==
    shown # None => dfFile = uploaded_file

\* C6: outside a transcription call no slice file exists.
C6_NoLeftoverSlice ==
    pc # "transcribe" => sliceFiles = 0

\* C7 (as written): the export is the lines of the records in order,
\* exactly one newline-terminated line per retained turn, start and end
\* written with exactly two decimals.
C7_ExportTwoDecimals ==
    txt_output # None =>
        /\ txt_output[1] =
              Flatten([i \in 1..Len(df[1]) |-> LineWith(TwoDecimals, df[1][i])])
        /\ (pc = "display" /\ FreshRun) =>
              Len(SelectSeq(txt_output[1], IsNewline)) = Len(Kept(annotation))

\* C7 (amended): the export is the entries of the records in order, one
\* entry per retained turn and none for a discarded one; an entry is
\* "[start s -> end s] speaker: text" followed by a newline, start and end
\* rounded to two decimals and written in the shortest form (a final zero
\* is left out: 0.3, 2.0, 1.23), the text written as it is.  An entry is
\* one line when its text has no line break, and is broken by every line
\* break inside its text: the export has one newline per record plus one
\* per newline inside a text.
C7_ExportShortest ==
    txt_output # None =>
        /\ df # None
        /\ txt_output[1] =
              Flatten([i \in 1..Len(df[1]) |->
                          LineWith(ShortestDecimal, df[1][i])])
        /\ (pc = "display" /\ FreshRun) => Len(df[1]) = Len(Kept(annotation))
        /\ Len(SelectSeq(txt_output[1], IsNewline))
              = Len(df[1]) + Len(SelectSeq(Flatten([i \in 1..Len(df[1]) |->
                                                      df[1][i].text]),
                                           IsNewline))
        /\ \A i \in 1..Len(df[1]) :
              LET line == LineWith(ShortestDecimal, df[1][i])
              IN  /\ line[Len(line)] = 10
                  /\ SelectSeq(df[1][i].text, IsNewline) = <<>>
                        => Len(SelectSeq(line, IsNewline)) = 1

\* C7 witness: an export of two records, one with start 1.23 and end 4.56,
\* one whose start and end have a single decimal; the text of one has no
\* line break, the text of the other has one, and the export has three
\* newlines.
C7_Witness ==
    /\ txt_output # None
    /\ Len(df[1]) = 2
    /\ \E i \in 1..2 : df[1][i].start = 123 /\ df[1][i].end = 456
    /\ \E i \in 1..2 : df[1][i].start % 10 = 0 /\ df[1][i].end % 10 = 0
    /\ \E i, j \in 1..2 :
          /\ df[1][i].text = <<>>
          /\ df[1][j].text = <<97, 10, 98>>
    /\ Len(SelectSeq(txt_output[1], IsNewline)) = 3

\* C8: the summary has one row per speaker label of the records, no other
\* row, and the row's duration is the sum of end - start over the records
\* of that speaker; after a fresh run the labels are those of the retained
\* turns.
C8_SummaryPerSpeaker ==
    shown # None =>
        LET rows == df[1]
            sm == shown[1].summary
        IN  /\ { sm[i].speaker : i \in 1..Len(sm) }
                 = { rows[i].speaker : i \in 1..Len(rows) }
            /\ \A i, j \in 1..Len(sm) : sm[i].speaker = sm[j].speaker => i = j
            /\ \A i \in 1..Len(sm) :
                  sm[i].Duration = TurnSum(rows, sm[i].speaker)
            /\ FreshRun =>
                  LET kept == Kept(annotation)
                  IN  { sm[i].speaker : i \in 1..Len(sm) }
                         = { kept[i].speaker : i \in 1..Len(kept) }

\* C8 witness: a summary is shown for a speaker with two records whose
\* summed duration differs from last end minus first start.
C8_Witness ==
    /\ shown # None
    /\ Len(df[1]) = 2
    /\ df[1][1].speaker = df[1][2].speaker
    /\ Len(shown[1].summary) = 1
    /\ shown[1].summary[1].Duration
          # Max(df[1][1].end, df[1][2].end) - Min(df[1][1].start, df[1][2].start)

\* C9: the rows of the table view are in non-decreasing order of start.
C9_TableSorted ==
    (shown # None /\ shown[1].view = "table") =>
        \A i, j \in 1..Len(shown[1].rows) :
            i < j => shown[1].rows[i][1] <= shown[1].rows[j][1]

\* C10: between runs no upload scratch file is left on disk.
C10_NoLeftoverScratch ==
    pc = "idle" => scratchFiles = 0

====
